---- MODULE Spec2Model ----
(***************************************************************************)
(* CachedMethods (src/CachedMethods/__init__.py): cached_property,         *)
(* cached_method, cached_args_method and class_cached_property, as a state *)
(* machine over the instance dictionaries of a few objects and the shared  *)
(* __class_cache__ dictionary of their classes.                            *)
(*                                                                         *)
(* The client program is a class A and a subclass B of A.  A declares the  *)
(* cached members listed in Funcs (B overrides the cached method f); the   *)
(* wrapped functions are the client's: what each returns or raises at a    *)
(* call is an input of the action that calls it.                           *)
(*                                                                         *)
(* Spec is the single-threaded program, one action per access.             *)
(* SpecFrozenDict is a FrozenDict under its own operations.  SpecThreads   *)
(* is two threads inside the wrappers of cached_method and                 *)
(* cached_args_method, one action per lookup, computation and store.       *)
(***************************************************************************)
EXTENDS Integers, Sequences, FiniteSets, TLC

\* ------------------------------------------------------------ bounds

\* Number of objects.
NumObjs == 2

\* ------------------------------------------------------------ client program

Objs == 1 .. NumObjs
Classes == {"A", "B"}

\* B(A): the classes an attribute of an instance of cls is looked up in.
Mro(cls) == IF cls = "B" THEN {"B", "A"} ELSE {"A"}

\* The decorated functions of the client program.
PropertyFuncs == {"p", "s"}
MethodFuncs == {"A.f", "B.f", "g"}
ArgsMethodFuncs == {"h"}
ClassPropertyFuncs == {"cp", "cq"}
Funcs == PropertyFuncs \cup MethodFuncs \cup ArgsMethodFuncs \cup ClassPropertyFuncs

\* The client programs: the cached members classes A and B declare.  p is a
\* cached_property and s a private one (def __s); f is a cached_method of A that
\* B overrides, g another cached_method of A; h is a cached_args_method; cp and
\* cq are class_cached_properties.
Programs == {{"p", "s"}, {"A.f", "B.f"}, {"A.f", "g"}, {"h"}, {"cp", "cq"}}

\* func.__qualname__.split(".")[-2]: the class whose body defines the function.
Owner(fn) == IF fn = "B.f" THEN "B" ELSE "A"

\* func.__name__
FuncName(fn) ==
    CASE fn \in {"A.f", "B.f"} -> "f"
      [] fn = "s" -> "__s"
      [] OTHER -> fn

\* name.startswith('__') and not name.endswith('__')
IsPrivate(name) == name \in {"__s"}

\* The argument values of the client: "a" is hashable, "[]" is a list.
ArgValues == {"a", "[]"}
Unhashable == {"[]"}
ArgTuples == {<<>>, <<"a">>, <<"[]">>, <<"a", "[]">>}

\* hash(args) succeeds: every element of the tuple is hashable.
Hashable(args) == \A i \in 1 .. Len(args) : args[i] \notin Unhashable
\* The tuples that can be keys of an argument mapping.
Keys == {args \in ArgTuples : Hashable(args)}

\* ------------------------------------------------------------ values

\* The results of the client's functions: function fn returns one of
\* Len(ReturnTypes(fn)) values, value number v of type ReturnTypes(fn)[v].
ReturnTypes(fn) ==
    CASE fn = "p" -> <<"list", "int">>
      [] fn = "s" -> <<"set", "dict">>
      [] fn = "A.f" -> <<"set", "list">>
      [] fn = "B.f" -> <<"dict", "int">>
      [] fn = "g" -> <<"int", "set">>
      [] fn = "h" -> <<"dict", "list">>
      [] fn = "cp" -> <<"list", "dict">>
      [] OTHER -> <<"set">>
TypeOf(fn, v) == ReturnTypes(fn)[v]

\* The value a wrapped function returns: result number v of fn on obj with args.
Raw(fn, o, args, v) ==
    [type |-> TypeOf(fn, v), src |-> fn, obj |-> o, args |-> args, v |-> v]

\* What a call of a wrapped function does: return a value or raise.
ExcTypes == {"KeyError", "AttributeError"}
Returns(fn, o, args) ==
    {[exc |-> "none", value |-> Raw(fn, o, args, v)] :
        v \in 1 .. Len(ReturnTypes(fn))}
NoValue == [type |-> "none", src |-> "", obj |-> 0, args |-> <<>>, v |-> 0]
Raises == {[exc |-> e, value |-> NoValue] : e \in ExcTypes}

\* class FrozenDict: dict(value) wrapped read-only; the contents are kept.
FrozenDict(value) == [value EXCEPT !.type = "FrozenDict"]

\* A faulty chain: a dict result is left as it is.
NormalizeNoDict(value) ==
    IF value.type = "list" THEN [value EXCEPT !.type = "tuple"]
    ELSE IF value.type = "set" THEN [value EXCEPT !.type = "frozenset"]
    ELSE value
\* The isinstance chain of every wrapper: list -> tuple, set -> frozenset,
\* dict -> FrozenDict, anything else as it is.
Normalize(value) ==
    IF value.type = "list" THEN [value EXCEPT !.type = "tuple"]
    ELSE IF value.type = "set" THEN [value EXCEPT !.type = "frozenset"]
    ELSE IF value.type = "dict" THEN FrozenDict(value)
    ELSE value

\* ------------------------------------------------------------ slot names

\* The attribute name a class body binds a member to: the compiler mangles a
\* private name (def __s in class A is A._A__s), which is what self.name repeats.
AttrName(fn) ==
    IF IsPrivate(FuncName(fn))
    THEN <<"_", Owner(fn), FuncName(fn)>>
    ELSE <<FuncName(fn)>>

\* cached_property.__init__ / class_cached_property.__init__: self.name.
PropertyName(fn) ==
    IF IsPrivate(FuncName(fn))
    THEN <<"_", Owner(fn), FuncName(fn)>>
    ELSE <<FuncName(fn)>>

\* cached_method: name = f'__cached_method_{func.__name__}'
MethodSlot(fn) == <<"__cached_method_", FuncName(fn)>>

\* cached_args_method: name = f'__cached_args_method_{func.__name__}'
ArgsMethodSlot(fn) == <<"__cached_args_method_", FuncName(fn)>>

\* ------------------------------------------------------------ state

VARIABLES
    defined,          \* the cached members the client classes declare
    class_of,         \* type(obj)
    has_dict,         \* obj has an instance __dict__ (FALSE: __slots__ only)
    has_class_cache,  \* class A defines __class_cache__ = {}
    obj_dict,         \* obj.__dict__: slot name -> value (or argument mapping)
    class_cache,      \* A.__class_cache__: class -> (property name -> value)
    last,             \* the latest operation and what its caller saw
    given,            \* the mapping a FrozenDict was constructed from
    self_d,           \* FrozenDict: self.__d
    seen,             \* the latest operation on the FrozenDict and its result
    thread,           \* per thread: the wrapper call in progress, or its result
    heap,             \* the argument mappings threads hold references to
    written           \* per object: the value written last to a method slot

vars == <<defined, class_of, has_dict, has_class_cache, obj_dict, class_cache,
          last, given, self_d, seen, thread, heap, written>>

\* The state of the interleaved wrapper calls.
threads == <<thread, heap, written>>

\* The variables the operations on the cached members leave alone.
others == <<given, self_d, seen, threads>>

\* An empty dict.
Empty == << >>

\* d with d[k] = v (a dictionary store).
Store(d, k, v) == [x \in DOMAIN d \cup {k} |-> IF x = k THEN v ELSE d[x]]
\* d without k (del d[k]).
Remove(d, k) == [x \in DOMAIN d \ {k} |-> d[x]]

\* No operation on a cached member yet.
NoOperation ==
    [op |-> "init", obj |-> 0, fn |-> "", args |-> <<>>,
     executed |-> FALSE, raised |-> "none", exc |-> "none", ret |-> NoValue,
     after |-> "none", stale |-> NoValue]

\* The threads of the client.
Threads == {"t1", "t2"}

\* A thread that has called no wrapper yet.  pc is the line of the wrapper the
\* thread executes next ("idle": no call in progress, exc and ret being what
\* its latest call raised or returned); cache and value are the wrapper's
\* local variables; executed counts the executions of func in the call.
Idle ==
    [pc |-> "idle", obj |-> 0, fn |-> "", args |-> <<>>, cache |-> 0,
     value |-> NoValue, executed |-> 0, exc |-> "none", ret |-> NoValue]

\* No operation on the FrozenDict yet.
NothingSeen ==
    [op |-> "none", key |-> "", exc |-> "none", value |-> 0, keys |-> {},
     size |-> 0, text |-> Empty]

Init ==
    /\ defined \in Programs
    /\ class_of \in {c \in [Objs -> Classes] :
                        /\ c[1] = "A"
                        /\ \A i, j \in Objs : i < j /\ c[i] = "B" => c[j] = "B"}
    /\ has_dict \in [Objs -> BOOLEAN]
    /\ has_class_cache \in
         IF defined \cap ClassPropertyFuncs = {} THEN {TRUE} ELSE BOOLEAN
    /\ obj_dict = [o \in Objs |-> Empty]
    /\ class_cache = Empty
    /\ last = NoOperation
    /\ given = Empty
    /\ self_d = Empty
    /\ seen = NothingSeen
    /\ thread = [t \in Threads |-> Idle]
    /\ heap = <<>>
    /\ written = [o \in Objs |-> NoValue]

\* The outcomes of one call of the wrapped function fn.
Outcomes(fn, o, args) == Returns(fn, o, args) \cup Raises

\* The outcome of a lookup that called no wrapped function.
NotCalled == [exc |-> "none", value |-> NoValue]

\* The members an instance of class_of[o] can reach.
Reachable(o, fn) == fn \in defined /\ Owner(fn) \in Mro(class_of[o])

\* The operation before this one was on the same member of the same object
\* with the same arguments.
Follows(o, fn, args) == last.obj = o /\ last.fn = fn /\ last.args = args

\* What the caller of an operation saw: the exception or the value returned;
\* out is the outcome of the wrapped function when the operation executed it.
\* after and stale keep what the operation follows: "del" after a deletion of
\* the same attribute (stale: the value deleted), "raise" after an access whose
\* computation raised.
Result(op, o, fn, args, executed, out, exc, ret) ==
    [op |-> op, obj |-> o, fn |-> fn, args |-> args,
     executed |-> executed, raised |-> out.exc, exc |-> exc, ret |-> ret,
     after |-> IF Follows(o, fn, args) /\ last.op = "del" /\ last.exc = "none"
               THEN "del"
               ELSE IF Follows(o, fn, args) /\ last.raised # "none"
               THEN "raise"
               ELSE "none",
     stale |-> IF Follows(o, fn, args) /\ last.op = "del" /\ last.exc = "none"
               THEN last.stale
               ELSE NoValue]

\* What del o.<name> leaves in last: removed is the value deleted.
Deleted(o, fn, exc, removed) ==
    [op |-> "del", obj |-> o, fn |-> fn, args |-> <<>>,
     executed |-> FALSE, raised |-> "none", exc |-> exc, ret |-> NoValue,
     after |-> "none", stale |-> removed]

\* name in obj.__dict__, for the attribute lookup of an instance.
HasItem(o, name) == has_dict[o] /\ name \in DOMAIN obj_dict[o]

\* A faulty store: the value lands in the dictionary of every object.
SetItemShared(o, name, value) ==
    [x \in Objs |-> IF has_dict[x] THEN Store(obj_dict[x], name, value) ELSE obj_dict[x]]
\* The instance dictionaries after obj.__dict__[name] = value.
SetItem(o, name, value) ==
    [obj_dict EXCEPT ![o] = Store(@, name, value)]

\* What an operation leaves: the instance dictionaries, the class cache, and
\* the exception raised to the caller or the value returned.
Effect(dict, cache, exc, ret) ==
    [dict |-> dict, cache |-> cache, exc |-> exc, ret |-> ret]

\* ------------------------------------------------------------ cached_property

\* A faulty __get__: stores under func.__name__, a private name unmangled.
PropertyGetUnmangled(o, fn, out) ==
    IF out.exc # "none"
    THEN Effect(obj_dict, class_cache, out.exc, NoValue)
    ELSE IF ~has_dict[o]
    THEN Effect(obj_dict, class_cache, "AttributeError", NoValue)
    ELSE Effect(SetItem(o, <<FuncName(fn)>>, Normalize(out.value)), class_cache,
                "none", Normalize(out.value))
\* cached_property.__get__(obj, cls) with obj not None, out being what
\* self.func(obj) does.
PropertyGet(o, fn, out) ==
    IF out.exc # "none"
    THEN Effect(obj_dict, class_cache, out.exc, NoValue)
    ELSE IF ~has_dict[o]
    THEN \* obj.__dict__ raises AttributeError
         Effect(obj_dict, class_cache, "AttributeError", NoValue)
    ELSE Effect(SetItem(o, PropertyName(fn), Normalize(out.value)), class_cache,
                "none", Normalize(out.value))

\* o.<name> for a cached_property: the instance dictionary is looked up first
\* (the descriptor defines no __set__), then cached_property.__get__(o, type(o)).
ReadProperty(o, fn) ==
    /\ fn \in PropertyFuncs
    /\ Reachable(o, fn)
    /\ UNCHANGED others
    /\ UNCHANGED <<defined, class_of, has_dict, has_class_cache, class_cache>>
    /\ IF HasItem(o, AttrName(fn))
       THEN /\ last' = Result("get", o, fn, <<>>, FALSE, NotCalled, "none",
                              obj_dict[o][AttrName(fn)])
            /\ UNCHANGED obj_dict
       ELSE \E out \in Outcomes(fn, o, <<>>) :
            LET e == PropertyGet(o, fn, out) IN
            /\ obj_dict' = e.dict
            /\ last' = Result("get", o, fn, <<>>, TRUE, out, e.exc, e.ret)

\* cached_property.__get__(None, cls) and class_cached_property.__get__(None, cls):
\* a read through the class returns the descriptor itself.
ReadOnClass(cls, fn) ==
    /\ fn \in PropertyFuncs \cup ClassPropertyFuncs
    /\ fn \in defined
    /\ Owner(fn) \in Mro(cls)
    /\ last' = Result("get_on_class", 0, fn, <<>>, FALSE, NotCalled, "none",
                      [NoValue EXCEPT !.type = "descriptor", !.src = fn])
    /\ UNCHANGED others
    /\ UNCHANGED <<defined, class_of, has_dict, has_class_cache, obj_dict,
                   class_cache>>

\* A faulty deletion: the statement succeeds and the entry stays.
DelAttrKept(o, fn) ==
    /\ fn \in PropertyFuncs \cup ClassPropertyFuncs
    /\ Reachable(o, fn)
    /\ UNCHANGED others
    /\ UNCHANGED <<defined, class_of, has_dict, has_class_cache, class_cache, obj_dict>>
    /\ last' = IF HasItem(o, AttrName(fn))
               THEN Deleted(o, fn, "none", obj_dict[o][AttrName(fn)])
               ELSE Deleted(o, fn, "AttributeError", NoValue)
\* del o.<name>: neither descriptor defines __delete__, so the statement removes
\* the entry of the instance dictionary, and raises AttributeError without one.
DelAttr(o, fn) ==
    /\ fn \in PropertyFuncs \cup ClassPropertyFuncs
    /\ Reachable(o, fn)
    /\ UNCHANGED others
    /\ UNCHANGED <<defined, class_of, has_dict, has_class_cache, class_cache>>
    /\ IF HasItem(o, AttrName(fn))
       THEN /\ obj_dict' = [obj_dict EXCEPT ![o] = Remove(@, AttrName(fn))]
            /\ last' = Deleted(o, fn, "none", obj_dict[o][AttrName(fn)])
       ELSE /\ UNCHANGED obj_dict
            /\ last' = Deleted(o, fn, "AttributeError", NoValue)

\* ------------------------------------------------------------ cached_method

\* A faulty branch: the value is returned and not stored.
MethodMissNoStore(o, fn, out) ==
    IF out.exc # "none"
    THEN Effect(obj_dict, class_cache, out.exc, NoValue)
    ELSE Effect(obj_dict, class_cache, "none", Normalize(out.value))
\* The except KeyError branch of cached_method's wrapper, out being what
\* func(self) does.
MethodMiss(o, fn, out) ==
    IF out.exc # "none"
    THEN Effect(obj_dict, class_cache, out.exc, NoValue)
    ELSE Effect(SetItem(o, MethodSlot(fn), Normalize(out.value)), class_cache,
                "none", Normalize(out.value))

\* cached_method(func).wrapper(self)
CallMethod(o, fn) ==
    /\ fn \in MethodFuncs
    /\ Reachable(o, fn)
    /\ UNCHANGED others
    /\ UNCHANGED <<defined, class_of, has_dict, has_class_cache, class_cache>>
    /\ IF ~has_dict[o]
       THEN \* self.__dict__ raises AttributeError, which no handler catches
            /\ last' = Result("call", o, fn, <<>>, FALSE, NotCalled,
                              "AttributeError", NoValue)
            /\ UNCHANGED obj_dict
       ELSE IF MethodSlot(fn) \in DOMAIN obj_dict[o]
       THEN /\ last' = Result("call", o, fn, <<>>, FALSE, NotCalled, "none",
                              obj_dict[o][MethodSlot(fn)])
            /\ UNCHANGED obj_dict
       ELSE \E out \in Outcomes(fn, o, <<>>) :
            LET e == MethodMiss(o, fn, out) IN
            /\ obj_dict' = e.dict
            /\ last' = Result("call", o, fn, <<>>, TRUE, out, e.exc, e.ret)

\* ------------------------------------------------------------ cached_args_method

\* A faulty branch: the mapping is created before func is called.
ArgsFirstEager(o, fn, args, out) ==
    IF out.exc # "none"
    THEN Effect(SetItem(o, ArgsMethodSlot(fn), Empty), class_cache, out.exc, NoValue)
    ELSE IF ~Hashable(args)
    THEN Effect(SetItem(o, ArgsMethodSlot(fn), Empty), class_cache, "TypeError", NoValue)
    ELSE Effect(SetItem(o, ArgsMethodSlot(fn), Store(Empty, args, Normalize(out.value))),
                class_cache, "none", Normalize(out.value))
\* The first except KeyError branch of cached_args_method's wrapper (the object
\* has no argument mapping yet), out being what func(self, *args) does.
ArgsFirst(o, fn, args, out) ==
    IF out.exc # "none"
    THEN Effect(obj_dict, class_cache, out.exc, NoValue)
    ELSE IF ~Hashable(args)
    THEN \* {args: value} raises TypeError: unhashable type
         Effect(obj_dict, class_cache, "TypeError", NoValue)
    ELSE Effect(SetItem(o, ArgsMethodSlot(fn), Store(Empty, args, Normalize(out.value))),
                class_cache, "none", Normalize(out.value))

\* A faulty insertion: the mapping is replaced by {args: value}.
InsertReplacing(cache, args, value) == Store(Empty, args, value)
\* cache[args] = value
Insert(cache, args, value) == Store(cache, args, value)

\* The second except KeyError branch (the mapping has no entry for args).
ArgsMiss(o, fn, args, out) ==
    IF out.exc # "none"
    THEN Effect(obj_dict, class_cache, out.exc, NoValue)
    ELSE Effect(SetItem(o, ArgsMethodSlot(fn),
                        Insert(obj_dict[o][ArgsMethodSlot(fn)], args,
                               Normalize(out.value))),
                class_cache, "none", Normalize(out.value))

\* cached_args_method(func).wrapper(self, *args)
CallArgsMethod(o, fn, args) ==
    /\ fn \in ArgsMethodFuncs
    /\ Reachable(o, fn)
    /\ UNCHANGED others
    /\ UNCHANGED <<defined, class_of, has_dict, has_class_cache, class_cache>>
    /\ IF ~has_dict[o]
       THEN /\ last' = Result("call", o, fn, args, FALSE, NotCalled,
                              "AttributeError", NoValue)
            /\ UNCHANGED obj_dict
       ELSE IF ArgsMethodSlot(fn) \notin DOMAIN obj_dict[o]
       THEN \E out \in Outcomes(fn, o, args) :
            LET e == ArgsFirst(o, fn, args, out) IN
            /\ obj_dict' = e.dict
            /\ last' = Result("call", o, fn, args, TRUE, out, e.exc, e.ret)
       ELSE IF ~Hashable(args)
       THEN \* cache[args] raises TypeError, which except KeyError lets through
            /\ last' = Result("call", o, fn, args, FALSE, NotCalled,
                              "TypeError", NoValue)
            /\ UNCHANGED obj_dict
       ELSE IF args \in DOMAIN obj_dict[o][ArgsMethodSlot(fn)]
       THEN /\ last' = Result("call", o, fn, args, FALSE, NotCalled, "none",
                              obj_dict[o][ArgsMethodSlot(fn)][args])
            /\ UNCHANGED obj_dict
       ELSE \E out \in Outcomes(fn, o, args) :
            LET e == ArgsMiss(o, fn, args, out) IN
            /\ obj_dict' = e.dict
            /\ last' = Result("call", o, fn, args, TRUE, out, e.exc, e.ret)

\* ------------------------------------------------------------ class_cached_property

\* A faulty key: the class that defines the property.
DefiningClass(o) == "A"
\* The cls of __get__(obj, cls), the key __class_cache__ is read and written
\* under ("for subclasses isolation"): the exact class of the object.
CacheClass(o) == class_of[o]

\* A faulty lookup: no entry is ever found.
HasEntryNever(cls, name) == FALSE
\* cls.__class_cache__[cls][self.name] finds an entry.
HasEntry(cls, name) == cls \in DOMAIN class_cache /\ name \in DOMAIN class_cache[cls]

\* A faulty lookup: every class is taken to provide __class_cache__.
HasClassCacheAlways(cls) == TRUE
\* cls.__class_cache__ resolves: class A, which cls is or derives from, defines
\* the dictionary.
HasClassCache(cls) == has_class_cache

\* try: obj.__dict__[self.name] = value / except AttributeError: pass
Mirror(dict, o, fn, value) ==
    IF has_dict[o]
    THEN [dict EXCEPT ![o] = Store(@, PropertyName(fn), value)]
    ELSE dict

\* A faulty __get__: the AttributeError of obj.__dict__ is not caught.
ClassMissUncaught(o, fn, out) ==
    LET cls == CacheClass(o)
        name == PropertyName(fn)
        cache == IF cls \notin DOMAIN class_cache
                 THEN Store(class_cache, cls, Store(Empty, name, Normalize(out.value)))
                 ELSE [class_cache EXCEPT ![cls] = Store(@, name, Normalize(out.value))]
    IN
    IF out.exc # "none"
    THEN Effect(obj_dict, class_cache, out.exc, NoValue)
    ELSE IF ~has_dict[o]
    THEN Effect(obj_dict, cache, "AttributeError", NoValue)
    ELSE Effect(Mirror(obj_dict, o, fn, Normalize(out.value)), cache,
                "none", Normalize(out.value))
\* A faulty __get__: the value is mirrored and no class-level entry is stored.
ClassMissMirrorOnly(o, fn, out) ==
    IF out.exc # "none"
    THEN Effect(obj_dict, class_cache, out.exc, NoValue)
    ELSE Effect(Mirror(obj_dict, o, fn, Normalize(out.value)), class_cache,
                "none", Normalize(out.value))
\* A faulty __get__: both branches store a new dictionary {self.name: value}.
ClassMissReplacing(o, fn, out) ==
    IF out.exc # "none"
    THEN Effect(obj_dict, class_cache, out.exc, NoValue)
    ELSE Effect(Mirror(obj_dict, o, fn, Normalize(out.value)),
                Store(class_cache, CacheClass(o),
                      Store(Empty, PropertyName(fn), Normalize(out.value))),
                "none", Normalize(out.value))
\* The two computing branches of class_cached_property.__get__ (no entry for
\* cls; an entry for cls without self.name), out being what self.func(obj) does,
\* and the mirroring that follows them.
ClassMiss(o, fn, out) ==
    LET cls == CacheClass(o)
        name == PropertyName(fn)
    IN
    IF out.exc # "none"
    THEN Effect(obj_dict, class_cache, out.exc, NoValue)
    ELSE Effect(Mirror(obj_dict, o, fn, Normalize(out.value)),
                IF cls \notin DOMAIN class_cache
                THEN Store(class_cache, cls, Store(Empty, name, Normalize(out.value)))
                ELSE [class_cache EXCEPT ![cls] = Store(@, name, Normalize(out.value))],
                "none", Normalize(out.value))

\* o.<name> for a class_cached_property: the instance dictionary first, then
\* class_cached_property.__get__(o, type(o)).
ReadClassProperty(o, fn) ==
    LET cls == CacheClass(o)
        name == PropertyName(fn)
    IN
    /\ fn \in ClassPropertyFuncs
    /\ Reachable(o, fn)
    /\ UNCHANGED others
    /\ UNCHANGED <<defined, class_of, has_dict, has_class_cache>>
    /\ IF HasItem(o, AttrName(fn))
       THEN /\ last' = Result("get", o, fn, <<>>, FALSE, NotCalled, "none",
                              obj_dict[o][AttrName(fn)])
            /\ UNCHANGED <<obj_dict, class_cache>>
       ELSE IF ~HasClassCache(cls)
       THEN \* cls.__class_cache__ raises AttributeError
            /\ last' = Result("get", o, fn, <<>>, FALSE, NotCalled,
                              "AttributeError", NoValue)
            /\ UNCHANGED <<obj_dict, class_cache>>
       ELSE IF HasEntry(cls, name)
       THEN /\ obj_dict' = Mirror(obj_dict, o, fn, class_cache[cls][name])
            /\ last' = Result("get", o, fn, <<>>, FALSE, NotCalled, "none",
                              class_cache[cls][name])
            /\ UNCHANGED class_cache
       ELSE \E out \in Outcomes(fn, o, <<>>) :
            LET e == ClassMiss(o, fn, out) IN
            /\ obj_dict' = e.dict
            /\ class_cache' = e.cache
            /\ last' = Result("get", o, fn, <<>>, TRUE, out, e.exc, e.ret)

\* ------------------------------------------------------------ FrozenDict

\* The keys and values of the client's dicts.
DictKeys == {"a", "b", "c"}
DictValues == {1, 2}
\* The dicts a FrozenDict is constructed from.
Dicts == UNION {[ks -> DictValues] : ks \in SUBSET DictKeys}

\* FrozenDict.__init__: self.__d = dict(*args, **kwargs), a new dict holding
\* the items given.
FrozenDictInit(items) == [k \in DOMAIN items |-> items[k]]

\* A faulty lookup: a missing key yields a default instead of KeyError.
LookupDefault(dict, key) ==
    IF key \in DOMAIN dict
    THEN [exc |-> "none", value |-> dict[key]]
    ELSE [exc |-> "none", value |-> 0]
\* self.__d[key]
Lookup(dict, key) ==
    IF key \in DOMAIN dict
    THEN [exc |-> "none", value |-> dict[key]]
    ELSE [exc |-> "KeyError", value |-> 0]

\* FrozenDict.__getitem__(key)
FrozenDictGetItem(key) ==
    /\ seen' = [NothingSeen EXCEPT !.op = "getitem", !.key = key,
                                   !.exc = Lookup(self_d, key).exc,
                                   !.value = Lookup(self_d, key).value]
    /\ UNCHANGED <<given, self_d>>
    /\ UNCHANGED threads
    /\ UNCHANGED <<defined, class_of, has_dict, has_class_cache, obj_dict,
                   class_cache, last>>

\* FrozenDict.__iter__(): iter(self.__d), the keys.
FrozenDictIter ==
    /\ seen' = [NothingSeen EXCEPT !.op = "iter", !.keys = DOMAIN self_d]
    /\ UNCHANGED <<given, self_d>>
    /\ UNCHANGED threads
    /\ UNCHANGED <<defined, class_of, has_dict, has_class_cache, obj_dict,
                   class_cache, last>>

\* FrozenDict.__len__(): len(self.__d)
FrozenDictLen ==
    /\ seen' = [NothingSeen EXCEPT !.op = "len", !.size = Cardinality(DOMAIN self_d)]
    /\ UNCHANGED <<given, self_d>>
    /\ UNCHANGED threads
    /\ UNCHANGED <<defined, class_of, has_dict, has_class_cache, obj_dict,
                   class_cache, last>>

\* FrozenDict.__repr__(): repr(self.__d), the text of the items.
FrozenDictRepr ==
    /\ seen' = [NothingSeen EXCEPT !.op = "repr", !.text = self_d]
    /\ UNCHANGED <<given, self_d>>
    /\ UNCHANGED threads
    /\ UNCHANGED <<defined, class_of, has_dict, has_class_cache, obj_dict,
                   class_cache, last>>

\* A FrozenDict constructed from one of the client's dicts; no cached member.
InitFrozenDict ==
    /\ given \in Dicts
    /\ self_d = FrozenDictInit(given)
    /\ seen = NothingSeen
    /\ defined = {}
    /\ class_of = [o \in Objs |-> "A"]
    /\ has_dict = [o \in Objs |-> TRUE]
    /\ has_class_cache = TRUE
    /\ obj_dict = [o \in Objs |-> Empty]
    /\ class_cache = Empty
    /\ last = NoOperation
    /\ thread = [t \in Threads |-> Idle]
    /\ heap = <<>>
    /\ written = [o \in Objs |-> NoValue]

NextFrozenDict ==
    \/ \E key \in DictKeys : FrozenDictGetItem(key)
    \/ FrozenDictIter
    \/ FrozenDictLen
    \/ FrozenDictRepr

\* ------------------------------------------------------------ threads

\* Two threads call the wrappers of cached_method and cached_args_method on
\* shared objects.  A step of a thread is one dictionary lookup, one call of
\* the wrapped function (with the isinstance chain on its local result), or
\* one dictionary store; here obj.__dict__ holds a reference into heap for an
\* argument mapping, since a thread keeps the mapping it looked up while
\* another thread replaces it.

\* The client programs of the threads: a cached_method, a cached_args_method.
ThreadPrograms == {{"g"}, {"h"}}

\* The tuples the threads call a cached_args_method with.
ThreadArgs(fn) == IF fn \in ArgsMethodFuncs THEN Keys ELSE {<<>>}

\* A pure deterministic function: its result for given arguments.
PureResult(fn, o, args) == Raw(fn, o, args, Len(args) + 1)

\* The outcomes of a call of func in a thread: the cached_args_method wraps a
\* pure deterministic function, the cached_method any function.
ThreadOutcomes(fn, o, args) ==
    IF fn \in ArgsMethodFuncs
    THEN {[exc |-> "none", value |-> PureResult(fn, o, args)]}
    ELSE Outcomes(fn, o, args)

\* The threads of the client share one object: o is the object of the calls
\* made so far.
Shared(o) == \A u \in Threads : thread[u].obj \in {0, o}

\* The thread's call is over: it returned ret or raised exc.
Returned(rec, exc, ret) ==
    [rec EXCEPT !.pc = "idle", !.cache = 0, !.value = NoValue,
                !.exc = exc, !.ret = ret]

\* cached_method.wrapper(self), line 83: return self.__dict__[name], or
\* KeyError and on to the handler.
MethodLookup(t, o, fn) ==
    LET rec == [Idle EXCEPT !.obj = o, !.fn = fn] IN
    /\ thread[t].pc = "idle"
    /\ fn \in MethodFuncs
    /\ Reachable(o, fn)
    /\ has_dict[o]
    /\ Shared(o)
    /\ thread' = [thread EXCEPT ![t] =
                    IF MethodSlot(fn) \in DOMAIN obj_dict[o]
                    THEN Returned(rec, "none", obj_dict[o][MethodSlot(fn)])
                    ELSE [rec EXCEPT !.pc = "85"]]
    /\ UNCHANGED <<obj_dict, heap, written>>
    /\ UNCHANGED <<defined, class_of, has_dict, has_class_cache, class_cache,
                   last, given, self_d, seen>>

\* Lines 85-91: value = func(self) and the isinstance chain.
MethodCompute(t) ==
    /\ thread[t].pc = "85"
    /\ \E out \in ThreadOutcomes(thread[t].fn, thread[t].obj, thread[t].args) :
         thread' = [thread EXCEPT ![t] =
                      IF out.exc # "none"
                      THEN Returned([@ EXCEPT !.executed = @ + 1], out.exc, NoValue)
                      ELSE [@ EXCEPT !.pc = "92", !.executed = @ + 1,
                                     !.value = Normalize(out.value)]]
    /\ UNCHANGED <<obj_dict, heap, written>>
    /\ UNCHANGED <<defined, class_of, has_dict, has_class_cache, class_cache,
                   last, given, self_d, seen>>

\* A faulty store: a slot already populated is left as it is.
SlotWriteFirstWins(dict, o, name, value) ==
    IF name \in DOMAIN dict[o] THEN dict ELSE [dict EXCEPT ![o] = Store(@, name, value)]
\* self.__dict__[name] = value
SlotWrite(dict, o, name, value) == [dict EXCEPT ![o] = Store(@, name, value)]

\* Lines 92-93: self.__dict__[name] = value; return value.
MethodStore(t) ==
    LET rec == thread[t] IN
    /\ rec.pc = "92"
    /\ obj_dict' = SlotWrite(obj_dict, rec.obj, MethodSlot(rec.fn), rec.value)
    /\ written' = [written EXCEPT ![rec.obj] = rec.value]
    /\ thread' = [thread EXCEPT ![t] = Returned(rec, "none", rec.value)]
    /\ UNCHANGED heap
    /\ UNCHANGED <<defined, class_of, has_dict, has_class_cache, class_cache,
                   last, given, self_d, seen>>

\* cached_args_method.wrapper(self, *args), line 106: cache = self.__dict__[name],
\* or KeyError and on to the first handler.
ArgsLookup(t, o, fn, args) ==
    LET rec == [Idle EXCEPT !.obj = o, !.fn = fn, !.args = args] IN
    /\ thread[t].pc = "idle"
    /\ fn \in ArgsMethodFuncs
    /\ args \in ThreadArgs(fn)
    /\ Reachable(o, fn)
    /\ has_dict[o]
    /\ Shared(o)
    /\ thread' = [thread EXCEPT ![t] =
                    IF ArgsMethodSlot(fn) \in DOMAIN obj_dict[o]
                    THEN [rec EXCEPT !.pc = "118",
                                     !.cache = obj_dict[o][ArgsMethodSlot(fn)]]
                    ELSE [rec EXCEPT !.pc = "108"]]
    /\ UNCHANGED <<obj_dict, heap, written>>
    /\ UNCHANGED <<defined, class_of, has_dict, has_class_cache, class_cache,
                   last, given, self_d, seen>>

\* Lines 108-114 and 120-126: value = func(self, *args) and the isinstance
\* chain, in the first handler and in the second.
ArgsCompute(t) ==
    /\ thread[t].pc \in {"108", "120"}
    /\ \E out \in ThreadOutcomes(thread[t].fn, thread[t].obj, thread[t].args) :
         thread' = [thread EXCEPT ![t] =
                      IF out.exc # "none"
                      THEN Returned([@ EXCEPT !.executed = @ + 1], out.exc, NoValue)
                      ELSE [@ EXCEPT !.pc = IF @ = "108" THEN "115" ELSE "127",
                                     !.executed = @ + 1,
                                     !.value = Normalize(out.value)]]
    /\ UNCHANGED <<obj_dict, heap, written>>
    /\ UNCHANGED <<defined, class_of, has_dict, has_class_cache, class_cache,
                   last, given, self_d, seen>>

\* A faulty mapping: the value is not keyed by the arguments.
FirstMappingUnkeyed(args, value) == Store(Empty, <<>>, value)
\* {args: value}
FirstMapping(args, value) == Store(Empty, args, value)

\* Lines 115-116: self.__dict__[name] = {args: value}, a new mapping that
\* replaces the one another thread may have stored meanwhile; return value.
ArgsFirstStore(t) ==
    LET rec == thread[t] IN
    /\ rec.pc = "115"
    /\ heap' = Append(heap, FirstMapping(rec.args, rec.value))
    /\ obj_dict' = SlotWrite(obj_dict, rec.obj, ArgsMethodSlot(rec.fn), Len(heap) + 1)
    /\ thread' = [thread EXCEPT ![t] = Returned(rec, "none", rec.value)]
    /\ UNCHANGED written
    /\ UNCHANGED <<defined, class_of, has_dict, has_class_cache, class_cache,
                   last, given, self_d, seen>>

\* Line 118: return cache[args], or KeyError and on to the second handler.
ArgsCacheLookup(t) ==
    LET rec == thread[t] IN
    /\ rec.pc = "118"
    /\ thread' = [thread EXCEPT ![t] =
                    IF rec.args \in DOMAIN heap[rec.cache]
                    THEN Returned(rec, "none", heap[rec.cache][rec.args])
                    ELSE [rec EXCEPT !.pc = "120"]]
    /\ UNCHANGED <<obj_dict, heap, written>>
    /\ UNCHANGED <<defined, class_of, has_dict, has_class_cache, class_cache,
                   last, given, self_d, seen>>

\* Lines 127-128: cache[args] = value; return value.
ArgsMissStore(t) ==
    LET rec == thread[t] IN
    /\ rec.pc = "127"
    /\ heap' = [heap EXCEPT ![rec.cache] = Insert(@, rec.args, rec.value)]
    /\ thread' = [thread EXCEPT ![t] = Returned(rec, "none", rec.value)]
    /\ UNCHANGED <<obj_dict, written>>
    /\ UNCHANGED <<defined, class_of, has_dict, has_class_cache, class_cache,
                   last, given, self_d, seen>>

\* Fresh objects with instance dictionaries, and idle threads.
InitThreads ==
    /\ defined \in ThreadPrograms
    /\ class_of = [o \in Objs |-> "A"]
    /\ has_dict = [o \in Objs |-> TRUE]
    /\ has_class_cache = TRUE
    /\ obj_dict = [o \in Objs |-> Empty]
    /\ class_cache = Empty
    /\ last = NoOperation
    /\ given = Empty
    /\ self_d = Empty
    /\ seen = NothingSeen
    /\ thread = [t \in Threads |-> Idle]
    /\ heap = <<>>
    /\ written = [o \in Objs |-> NoValue]

NextThreads ==
    \/ \E t \in Threads, o \in Objs, fn \in Funcs : MethodLookup(t, o, fn)
    \/ \E t \in Threads : MethodCompute(t)
    \/ \E t \in Threads : MethodStore(t)
    \/ \E t \in Threads, o \in Objs, fn \in Funcs, args \in ArgTuples :
         ArgsLookup(t, o, fn, args)
    \/ \E t \in Threads : ArgsCompute(t)
    \/ \E t \in Threads : ArgsFirstStore(t)
    \/ \E t \in Threads : ArgsCacheLookup(t)
    \/ \E t \in Threads : ArgsMissStore(t)

\* ------------------------------------------------------------ specification

Next ==
    \/ \E o \in Objs, fn \in Funcs : ReadProperty(o, fn)
    \/ \E cls \in Classes, fn \in Funcs : ReadOnClass(cls, fn)
    \/ \E o \in Objs, fn \in Funcs : DelAttr(o, fn)
    \/ \E o \in Objs, fn \in Funcs : CallMethod(o, fn)
    \/ \E o \in Objs, fn \in Funcs, args \in ArgTuples : CallArgsMethod(o, fn, args)
    \/ \E o \in Objs, fn \in Funcs : ReadClassProperty(o, fn)

Spec == Init /\ [][Next]_vars

\* The operations of a FrozenDict.
SpecFrozenDict == InitFrozenDict /\ [][NextFrozenDict]_vars

\* The wrapper calls of two threads, interleaved.
SpecThreads == InitThreads /\ [][NextThreads]_vars

\* ------------------------------------------------------------ properties

\* The step is operation op on member fn of object o.
Did(op, o, fn) == last'.op = op /\ last'.obj = o /\ last'.fn = fn

\* The operation before the step was op on member fn of object o.
Was(op, o, fn) == last.op = op /\ last.obj = o /\ last.fn = fn

\* The values fn can return for o and args, as the wrappers store them.
Fresh(fn, o, args) == {Normalize(r.value) : r \in Returns(fn, o, args)}

\* --- C1

\* C1, as stated: in a sequence of reads of a cached_property p on o with no
\* deletion in between, the computation is executed exactly once, on the first
\* read, and every read returns the value of the first.  Here for two reads in
\* a row on an object with an instance dictionary: the second does not execute
\* the computation and returns what the first returned.
C1_ExecutedExactlyOnce ==
    [][\A o \in Objs, fn \in PropertyFuncs :
         (has_dict[o] /\ Was("get", o, fn) /\ Did("get", o, fn))
         => (~last'.executed /\ last'.exc = "none" /\ last'.ret = last.ret)]_vars

\* C1, amended: for an object o and a cached_property p, in a sequence of
\* reads of p on o with no deletion in between, every read executes the
\* computation until one read returns (a read that raises stores nothing);
\* that read stores the value and returns it, and from then on no read
\* executes the computation and every read returns that value.  Step by step:
\* a read with the slot empty executes and stores exactly when it returns; a
\* read with the slot populated returns the slot's value without executing;
\* only a deletion of the attribute changes a populated slot.
C1_ComputedUntilReturned ==
    [][\A o \in Objs, fn \in PropertyFuncs :
         LET name == AttrName(fn) IN
         /\ Did("get", o, fn) =>
              IF name \in DOMAIN obj_dict[o]
              THEN /\ ~last'.executed
                   /\ last'.exc = "none"
                   /\ last'.ret = obj_dict[o][name]
                   /\ obj_dict'[o] = obj_dict[o]
              ELSE /\ last'.executed
                   /\ IF last'.exc = "none"
                      THEN /\ name \in DOMAIN obj_dict'[o]
                           /\ obj_dict'[o][name] = last'.ret
                           /\ last'.ret \in Fresh(fn, o, <<>>)
                      ELSE name \notin DOMAIN obj_dict'[o]
         /\ (name \in DOMAIN obj_dict[o] /\ ~Did("del", o, fn)) =>
              /\ name \in DOMAIN obj_dict'[o]
              /\ obj_dict'[o][name] = obj_dict[o][name]]_vars

\* A read of a cached_property (the private one too) served from the slot that
\* an earlier read populated.
C1_Witness ==
    /\ last.op = "get"
    /\ last.fn = "s"
    /\ ~last.executed
    /\ last.exc = "none"
    /\ HasItem(last.obj, AttrName("s"))
    /\ last.ret = obj_dict[last.obj][AttrName("s")]
    /\ HasItem(last.obj, AttrName("p"))

\* --- C2

\* C2: for a cached_property whose slot on o is populated, deleting the
\* attribute empties the slot; the next read of the property on o executes the
\* computation again, and the value that execution returns (any of the
\* function's results, whatever was cached before) is stored in the slot and
\* returned.
C2_DeletionResets ==
    [][\A o \in Objs, fn \in PropertyFuncs :
         LET name == AttrName(fn) IN
         /\ (Did("del", o, fn) /\ HasItem(o, name)) =>
              /\ last'.exc = "none"
              /\ ~HasItem(o, name)'
         /\ (Was("del", o, fn) /\ last.exc = "none" /\ Did("get", o, fn)) =>
              /\ last'.executed
              /\ last'.raised = "none" =>
                   /\ last'.exc = "none"
                   /\ last'.ret \in Fresh(fn, o, <<>>)
                   /\ HasItem(o, name)'
                   /\ obj_dict'[o][name] = last'.ret]_vars

\* The read after a deletion recomputed, and stored a value that differs from
\* the one deleted.
C2_Witness ==
    /\ last.op = "get"
    /\ last.fn \in PropertyFuncs
    /\ last.after = "del"
    /\ last.executed
    /\ last.exc = "none"
    /\ last.stale # NoValue
    /\ last.ret # last.stale
    /\ obj_dict[last.obj][AttrName(last.fn)] = last.ret

\* --- C3

InstanceFuncs == PropertyFuncs \cup MethodFuncs \cup ArgsMethodFuncs

\* The slot of instance-level member fn in obj.__dict__.
SlotName(fn) ==
    IF fn \in PropertyFuncs THEN AttrName(fn)
    ELSE IF fn \in MethodFuncs THEN MethodSlot(fn)
    ELSE ArgsMethodSlot(fn)

\* The object holds a cached result of fn for args.
Cached(o, fn, args) ==
    /\ HasItem(o, SlotName(fn))
    /\ fn \in ArgsMethodFuncs => args \in DOMAIN obj_dict[o][SlotName(fn)]

\* The cached result of fn for args.
CachedValue(o, fn, args) ==
    IF fn \in ArgsMethodFuncs
    THEN obj_dict[o][SlotName(fn)][args]
    ELSE obj_dict[o][SlotName(fn)]

\* C3: for two distinct objects o1 and o2 and an instance-level cached member
\* (cached_property, cached_method, cached_args_method), no read, call or
\* deletion on o1 changes the instance dictionary of o2; and an access on o2
\* (an object with an instance dictionary) that finds no cached result executes
\* the computation for o2 and, when it returns, caches and returns a result
\* computed for o2, whatever is cached on o1.
C3_InstanceIsolation ==
    [][\A o1, o2 \in Objs :
         o1 # o2 =>
           /\ (last'.obj = o1 /\ last'.fn \in InstanceFuncs) =>
                obj_dict'[o2] = obj_dict[o2]
           /\ \A fn \in InstanceFuncs, args \in Keys :
                (/\ last'.obj = o2 /\ last'.fn = fn /\ last'.args = args
                 /\ last'.op \in {"get", "call"}
                 /\ has_dict[o2]
                 /\ ~Cached(o2, fn, args)) =>
                  /\ last'.executed
                  /\ last'.exc = "none" =>
                       /\ last'.ret \in Fresh(fn, o2, args)
                       /\ Cached(o2, fn, args)'
                       /\ CachedValue(o2, fn, args)' = last'.ret]_vars

\* Object 2 computed and cached its own result while object 1 holds a cached
\* result of the same member, and the two differ.
C3_Witness ==
    /\ last.obj = 2
    /\ last.fn \in InstanceFuncs
    /\ last.args \in Keys
    /\ last.executed
    /\ last.exc = "none"
    /\ Cached(1, last.fn, last.args)
    /\ Cached(2, last.fn, last.args)
    /\ CachedValue(2, last.fn, last.args) = last.ret
    /\ last.ret.obj = 2
    /\ CachedValue(1, last.fn, last.args).obj = 1
    /\ CachedValue(1, last.fn, last.args).v # last.ret.v

\* --- C4

\* The argument mapping of fn on o (empty when the object has none yet).
ArgsCache(o, fn) ==
    IF HasItem(o, ArgsMethodSlot(fn)) THEN obj_dict[o][ArgsMethodSlot(fn)] ELSE Empty

\* C4, as stated: in a sequence of calls of a cached_args_method with hashable
\* arguments the computation is executed exactly once per distinct argument
\* tuple.  Here for two calls in a row with the same tuple on an object with an
\* instance dictionary: the second does not execute the computation.
C4_ExecutedOncePerTuple ==
    [][\A o \in Objs, fn \in ArgsMethodFuncs, args \in Keys :
         (/\ has_dict[o]
          /\ Was("call", o, fn) /\ last.args = args
          /\ Did("call", o, fn) /\ last'.args = args)
         => ~last'.executed]_vars

\* C4, amended: for a cached_args_method f and an object o with an instance
\* dictionary, in a sequence of calls with hashable positional arguments a call
\* with a tuple that has no entry executes the computation and, when it returns,
\* stores an entry for that tuple and leaves the entries of the other tuples as
\* they are (a call whose computation raises stores nothing and the next call
\* with that tuple executes it again); a call with a tuple already present
\* returns the stored value without executing the computation; no call removes
\* or changes an entry.
C4_ComputedOncePerTuple ==
    [][\A o \in Objs, fn \in ArgsMethodFuncs :
         /\ \A args \in Keys :
              (has_dict[o] /\ Did("call", o, fn) /\ last'.args = args) =>
                IF args \in DOMAIN ArgsCache(o, fn)
                THEN /\ ~last'.executed
                     /\ last'.exc = "none"
                     /\ last'.ret = ArgsCache(o, fn)[args]
                     /\ obj_dict'[o] = obj_dict[o]
                ELSE /\ last'.executed
                     /\ IF last'.exc = "none"
                        THEN /\ last'.ret \in Fresh(fn, o, args)
                             /\ DOMAIN ArgsCache(o, fn)' =
                                  DOMAIN ArgsCache(o, fn) \cup {args}
                             /\ ArgsCache(o, fn)'[args] = last'.ret
                        ELSE obj_dict'[o] = obj_dict[o]
         /\ \A args \in DOMAIN ArgsCache(o, fn) :
              /\ args \in DOMAIN ArgsCache(o, fn)'
              /\ ArgsCache(o, fn)'[args] = ArgsCache(o, fn)[args]]_vars

\* A repeat call served from the mapping, which holds separate entries for two
\* tuples.
C4_Witness ==
    /\ last.op = "call"
    /\ last.fn \in ArgsMethodFuncs
    /\ ~last.executed
    /\ last.exc = "none"
    /\ DOMAIN ArgsCache(last.obj, last.fn) = {<<>>, <<"a">>}
    /\ last.ret = ArgsCache(last.obj, last.fn)[last.args]
    /\ last.ret.args = last.args

\* --- C5

\* The class-level entry of property fn for cls exists.
ClassCached(cls, fn) ==
    cls \in DOMAIN class_cache /\ PropertyName(fn) \in DOMAIN class_cache[cls]

\* C5, as stated: after any sequence of reads on instances of A and of B the
\* computation of a class_cached_property has been executed exactly once for
\* each exact class that was read.  Here for two reads in a row on instances of
\* the same exact class: the second does not execute the computation.
C5_ExecutedOncePerClass ==
    [][\A o1, o2 \in Objs, fn \in ClassPropertyFuncs :
         (/\ class_of[o1] = class_of[o2]
          /\ Was("get", o1, fn)
          /\ Did("get", o2, fn))
         => ~last'.executed]_vars

\* C5, amended: for a class A with a class_cached_property and a subclass B
\* sharing the same __class_cache__, in any sequence of reads on instances of A
\* and of B a read executes the computation only when the entry of the
\* reader's exact class is missing, and an execution that returns stores the
\* entry, so that the computation returns exactly once per exact class that was
\* read (a read whose computation raises stores nothing and the entry stays
\* missing); the values of A and B are stored under the separate keys A and B,
\* each computed on an instance of its own class, and a read on an instance of
\* one class returns the entry of that class and leaves the entry of the other
\* class as it is.
C5_ComputedOncePerClass ==
    [][\A o \in Objs, fn \in ClassPropertyFuncs :
         LET cls == class_of[o]
             name == PropertyName(fn)
         IN
         /\ Did("get", o, fn) =>
              /\ last'.executed => ~ClassCached(cls, fn)
              /\ (last'.executed /\ last'.raised = "none") =>
                   /\ ClassCached(cls, fn)'
                   /\ class_cache'[cls][name] = last'.ret
                   /\ last'.ret \in Fresh(fn, o, <<>>)
              /\ last'.raised # "none" => class_cache' = class_cache
              /\ last'.exc = "none" =>
                   /\ ClassCached(cls, fn)'
                   /\ last'.ret = class_cache'[cls][name]
                   /\ class_of[last'.ret.obj] = cls
              /\ \A c \in DOMAIN class_cache : c # cls =>
                   /\ c \in DOMAIN class_cache'
                   /\ class_cache'[c] = class_cache[c]
         /\ ClassCached(cls, fn) =>
              /\ ClassCached(cls, fn)'
              /\ class_cache'[cls][name] = class_cache[cls][name]]_vars

\* Instances of A and of B have read the property: the entries of A and B are
\* separate and differ, and the last read, on an instance of B, returned B's.
C5_Witness ==
    /\ last.op = "get"
    /\ last.fn = "cp"
    /\ last.exc = "none"
    /\ class_of[last.obj] = "B"
    /\ ClassCached("A", "cp")
    /\ ClassCached("B", "cp")
    /\ class_cache["A"][PropertyName("cp")] # class_cache["B"][PropertyName("cp")]
    /\ class_cache["A"][PropertyName("cp")].v # class_cache["B"][PropertyName("cp")].v
    /\ last.ret = class_cache["B"][PropertyName("cp")]

\* --- C6

\* C6: for each of the four cached members, when the wrapped computation
\* raises, the exception raised reaches the caller, the access creates or
\* modifies no instance slot, argument-keyed entry or class-level entry, and the
\* next access with the same inputs executes the computation again.
C6_RaiseNotCached ==
    [][/\ last'.raised # "none" =>
            /\ last'.executed
            /\ last'.exc = last'.raised
            /\ last'.ret = NoValue
            /\ obj_dict' = obj_dict
            /\ class_cache' = class_cache
       /\ (/\ last.raised # "none"
           /\ last'.op = last.op /\ last'.obj = last.obj
           /\ last'.fn = last.fn /\ last'.args = last.args) =>
            last'.executed]_vars

\* The computation of a class_cached_property raised, and the next read on the
\* same object executed it again and cached its value.
C6_Witness ==
    /\ last.after = "raise"
    /\ last.fn \in ClassPropertyFuncs
    /\ last.executed
    /\ last.exc = "none"
    /\ ClassCached(class_of[last.obj], last.fn)

\* --- C7

\* C7: a call of a cached_args_method with an unhashable positional argument
\* fails with a type error at the cache lookup, before the wrapped computation
\* is executed, whether the object's argument mapping exists or not, and leaves
\* the object's cache unchanged.
C7_UnhashableFailsBeforeComputing ==
    [][\A o \in Objs, fn \in ArgsMethodFuncs :
         (has_dict[o] /\ Did("call", o, fn) /\ ~Hashable(last'.args)) =>
           /\ last'.exc = "TypeError"
           /\ ~last'.executed
           /\ obj_dict' = obj_dict]_vars

\* --- C8

\* C8: for a cached_method on object o, once a call has returned, every later
\* call returns the stored value without executing the wrapped function,
\* whatever the function would return now: a call that returns leaves its value
\* in the slot, a call that finds the slot populated returns the slot's value
\* and executes nothing, and no operation changes a populated slot.
C8_MethodComputedOnce ==
    [][\A o \in Objs, fn \in MethodFuncs :
         LET name == MethodSlot(fn) IN
         /\ (Did("call", o, fn) /\ last'.exc = "none") =>
              /\ HasItem(o, name)'
              /\ obj_dict'[o][name] = last'.ret
         /\ (Did("call", o, fn) /\ HasItem(o, name)) =>
              /\ ~last'.executed
              /\ last'.exc = "none"
              /\ last'.ret = obj_dict[o][name]
         /\ HasItem(o, name) =>
              /\ HasItem(o, name)'
              /\ obj_dict'[o][name] = obj_dict[o][name]]_vars

\* A later call of g served from the slot its first call populated.
C8_Witness ==
    /\ last.op = "call"
    /\ last.fn = "g"
    /\ ~last.executed
    /\ last.exc = "none"
    /\ last.ret = obj_dict[last.obj][MethodSlot("g")]
    /\ last.ret.src = "g"

\* --- C9

\* C9: cached_method keeps one slot per (object, wrapped function): for two
\* distinct wrapped functions invoked on the same object in any order (also B's
\* override f of A's f, A.f still being callable through A), each wrapper
\* returns only a value computed by its own function.
C9_OwnFunctionOnly ==
    (last.op = "call" /\ last.fn \in MethodFuncs /\ last.exc = "none")
    => last.ret.src = last.fn

\* --- C10

\* C10: once the class-level slot of (exact class C, property) is populated, no
\* read of the class_cached_property on an instance of C and no deletion of an
\* instance mirror executes the computation again or changes the slot: every
\* read, by an instance with a mirror or without one, returns the value
\* originally computed.
C10_ClassSlotFinal ==
    [][\A o \in Objs, fn \in ClassPropertyFuncs :
         LET cls == class_of[o]
             name == PropertyName(fn)
         IN
         ClassCached(cls, fn) =>
           /\ ClassCached(cls, fn)'
           /\ class_cache'[cls][name] = class_cache[cls][name]
           /\ Did("get", o, fn) =>
                /\ ~last'.executed
                /\ last'.exc = "none"
                /\ last'.ret = class_cache[cls][name]]_vars

\* An instance whose mirror was deleted read the property again and got the
\* class-level value, computed on another instance, without computing.
C10_Witness ==
    /\ last.op = "get"
    /\ last.fn \in ClassPropertyFuncs
    /\ last.after = "del"
    /\ ~last.executed
    /\ last.exc = "none"
    /\ last.ret = class_cache[class_of[last.obj]][PropertyName(last.fn)]
    /\ last.ret = last.stale
    /\ last.ret.obj # last.obj

\* --- C11

\* C11: a read of a class_cached_property on an object without an instance
\* dictionary, its class providing __class_cache__, raises no error of its own:
\* when the computation returns, the read returns the value, the entry of the
\* object's exact class is populated with it and no instance mirror is created;
\* every later read on such objects of that class returns the class-level value
\* without executing the computation, which has returned once in total.
C11_SlottedReadsClassEntry ==
    [][\A o \in Objs, fn \in ClassPropertyFuncs :
         LET cls == class_of[o]
             name == PropertyName(fn)
         IN
         (~has_dict[o] /\ has_class_cache /\ Did("get", o, fn)) =>
           /\ last'.exc = last'.raised
           /\ obj_dict' = obj_dict
           /\ obj_dict'[o] = Empty
           /\ last'.exc = "none" =>
                /\ ClassCached(cls, fn)'
                /\ last'.ret = class_cache'[cls][name]
           /\ IF ClassCached(cls, fn)
              THEN /\ ~last'.executed
                   /\ last'.exc = "none"
                   /\ last'.ret = class_cache[cls][name]
                   /\ class_cache' = class_cache
              ELSE last'.executed]_vars

\* Two objects without instance dictionaries, of the same class: the second
\* read the value the first computed, without computing, and neither holds a
\* mirror.
C11_Witness ==
    /\ last.op = "get"
    /\ last.fn \in ClassPropertyFuncs
    /\ last.obj = 2
    /\ ~has_dict[1] /\ ~has_dict[2]
    /\ class_of[1] = class_of[2]
    /\ ~last.executed
    /\ last.exc = "none"
    /\ last.ret.obj = 1
    /\ last.ret = class_cache[class_of[2]][PropertyName(last.fn)]
    /\ obj_dict[1] = Empty /\ obj_dict[2] = Empty

\* --- C12

\* C12: a read of a class_cached_property on an instance whose class provides
\* no __class_cache__ fails with AttributeError, executes no computation and
\* creates no instance-level and no class-level entry.
C12_MissingClassCacheFails ==
    [][\A o \in Objs, fn \in ClassPropertyFuncs :
         (~has_class_cache /\ Did("get", o, fn)) =>
           /\ last'.exc = "AttributeError"
           /\ ~last'.executed
           /\ last'.raised = "none"
           /\ obj_dict' = obj_dict
           /\ class_cache' = class_cache
           /\ obj_dict'[o] = Empty
           /\ class_cache' = Empty]_vars

\* A read on an object with an instance dictionary, its class without
\* __class_cache__, failed and left both caches empty.
C12_Witness ==
    /\ ~has_class_cache
    /\ last.op = "get"
    /\ last.fn \in ClassPropertyFuncs
    /\ has_dict[last.obj]
    /\ last.exc = "AttributeError"
    /\ ~last.executed
    /\ class_cache = Empty

\* --- C13

\* C13: the contents of a FrozenDict are fixed at construction: after any
\* sequence of key lookups, key iterations, len and repr, its key set, values
\* and size are those given at construction; the lookup of a key present at
\* construction returns the value given at construction, and the lookup of a
\* key absent at construction fails with KeyError, never with a default.
C13_FrozenDictFixed ==
    /\ DOMAIN self_d = DOMAIN given
    /\ \A k \in DOMAIN given : self_d[k] = given[k]
    /\ seen.op = "getitem" =>
         IF seen.key \in DOMAIN given
         THEN seen.exc = "none" /\ seen.value = given[seen.key]
         ELSE seen.exc = "KeyError"
    /\ seen.op = "iter" => seen.keys = DOMAIN given
    /\ seen.op = "len" => seen.size = Cardinality(DOMAIN given)
    /\ seen.op = "repr" => seen.text = given

\* The lookup of an absent key in a FrozenDict of two items failed.
C13_Witness ==
    /\ Cardinality(DOMAIN given) = Cardinality(DictKeys) - 1
    /\ seen.op = "getitem"
    /\ seen.key \notin DOMAIN given
    /\ seen.exc = "KeyError"
    /\ self_d = given

\* --- C14

\* C14: the argument mapping of a cached_args_method on an object only grows:
\* an entry once stored stays with its original value under every later call
\* (hit, miss, call that raises), and the set of keys is the set of argument
\* tuples whose computation has completed: every call whose computation
\* returns leaves an entry for its tuple, and an entry appears only for the
\* tuple of a call whose computation returned.
C14_KeysAreCompletedTuples ==
    [][\A o \in Objs, fn \in ArgsMethodFuncs :
         has_dict[o] =>
           /\ \A args \in DOMAIN ArgsCache(o, fn) :
                /\ args \in DOMAIN ArgsCache(o, fn)'
                /\ ArgsCache(o, fn)'[args] = ArgsCache(o, fn)[args]
           /\ (Did("call", o, fn) /\ last'.executed /\ last'.raised = "none") =>
                last'.args \in DOMAIN ArgsCache(o, fn)'
           /\ \A args \in DOMAIN ArgsCache(o, fn)' \ DOMAIN ArgsCache(o, fn) :
                /\ Did("call", o, fn) /\ last'.args = args
                /\ last'.executed /\ last'.raised = "none"]_vars

\* --- C15

\* The values held in the instance dictionary of o: property slots, method
\* slots, mirrors, and the entries of argument mappings.
InstanceValues(o) ==
    UNION {IF name[1] = "__cached_args_method_"
           THEN {obj_dict[o][name][args] : args \in DOMAIN obj_dict[o][name]}
           ELSE {obj_dict[o][name]} : name \in DOMAIN obj_dict[o]}

\* The values held in the class-level entries.
ClassValues ==
    UNION {{class_cache[cls][name] : name \in DOMAIN class_cache[cls]} :
           cls \in DOMAIN class_cache}

\* Every value held in a cache location.
CacheValues == ClassValues \cup UNION {InstanceValues(o) : o \in Objs}

\* The type a result of type t is stored as.
StoredType(t) ==
    CASE t = "list" -> "tuple"
      [] t = "set" -> "frozenset"
      [] t = "dict" -> "FrozenDict"
      [] OTHER -> t

\* C15: in every reachable state no value held in a cache location (property
\* slot, cached_method slot, argument-keyed entry, class-level entry, instance
\* mirror) is a list, set or dict: a list result is stored as a tuple, a set
\* result as a frozenset, a dict result as a FrozenDict, any other result as
\* it is; the access that computes returns the normalized value it stores, and
\* a later access served from the cache returns that stored value.
C15_CachesHoldNormalized ==
    [][/\ \A v \in CacheValues' :
            /\ v.type \notin {"list", "set", "dict"}
            /\ v.type = StoredType(TypeOf(v.src, v.v))
       /\ (last'.op \in {"get", "call"} /\ last'.exc = "none") =>
            /\ last'.ret.type = StoredType(TypeOf(last'.ret.src, last'.ret.v))
            /\ last'.ret \in CacheValues'
            /\ \A o \in Objs, fn \in Funcs, args \in Keys :
                 (/\ last'.executed
                  /\ last'.obj = o /\ last'.fn = fn /\ last'.args = args) =>
                   /\ fn \in InstanceFuncs =>
                        /\ Cached(o, fn, args)'
                        /\ CachedValue(o, fn, args)' = last'.ret
                   /\ fn \in ClassPropertyFuncs =>
                        /\ ClassCached(class_of[o], fn)'
                        /\ class_cache'[class_of[o]][PropertyName(fn)] = last'.ret
                        /\ has_dict[o] =>
                             obj_dict'[o][PropertyName(fn)] = last'.ret
            /\ ~last'.executed => last'.ret \in CacheValues]_vars

\* The caches hold a tuple, a frozenset and a FrozenDict, computed from a
\* list, a set and a dict, and a result of another type as it was; the last
\* access computed the FrozenDict and returned it.
C15_Witness ==
    /\ {v.type : v \in CacheValues} = {"tuple", "frozenset", "FrozenDict", "int"}
    /\ last.executed
    /\ last.exc = "none"
    /\ last.ret \in CacheValues
    /\ last.ret.type = "FrozenDict"
    /\ TypeOf(last.ret.src, last.ret.v) = "dict"

\* --- C16

\* No call is in progress in any thread.
AllReturned == \A t \in Threads : thread[t].pc = "idle"

\* C16: when two threads make the first call of a cached_method on the same
\* object concurrently, interleaved at slot lookup, computation and slot
\* write, the only deviation from sequential behaviour is redundant
\* computation: a call executes the computation at most once; the slot, once
\* populated, stays populated and holds the value written last; and once the
\* calls have completed with the slot populated, no call changes the slot and
\* every call returns its value without computing.
C16_RaceOnlyRecomputes ==
    [][/\ \A t \in Threads : thread'[t].executed <= 1
       /\ \A o \in Objs, fn \in MethodFuncs :
            LET name == MethodSlot(fn) IN
            /\ name \in DOMAIN obj_dict'[o] => obj_dict'[o][name] = written'[o]
            /\ name \in DOMAIN obj_dict[o] => name \in DOMAIN obj_dict'[o]
            /\ (name \in DOMAIN obj_dict[o] /\ AllReturned) =>
                 /\ obj_dict'[o] = obj_dict[o]
                 /\ \A t \in Threads :
                      (/\ thread'[t] # thread[t]
                       /\ thread'[t].obj = o /\ thread'[t].fn = fn) =>
                        /\ thread'[t].pc = "idle"
                        /\ thread'[t].executed = 0
                        /\ thread'[t].exc = "none"
                        /\ thread'[t].ret = obj_dict[o][name]]_vars

\* Two first calls raced and both computed and wrote; a later call of one
\* thread returned the slot's value, written last, without computing, and it is
\* not the value the other thread's racing call computed and returned.
C16_Witness ==
    \E t, u \in Threads :
        LET o == thread[t].obj
            name == MethodSlot(thread[t].fn)
        IN
        /\ t # u
        /\ AllReturned
        /\ thread[t].fn \in MethodFuncs
        /\ thread[u].fn = thread[t].fn
        /\ thread[u].obj = o
        /\ thread[t].executed = 0
        /\ thread[t].exc = "none"
        /\ thread[t].ret = obj_dict[o][name]
        /\ thread[t].ret = written[o]
        /\ thread[u].executed = 1
        /\ thread[u].exc = "none"
        /\ thread[u].ret # obj_dict[o][name]

\* --- C17

\* C17: with a pure deterministic computation, under every interleaving of
\* two threads calling a cached_args_method on the same object with hashable
\* tuples (two racing first calls with different tuples included), every call
\* returns the normalized result of the computation for its own arguments, and
\* in every reachable state each entry of the object's argument mapping (and
\* of a mapping a thread still holds) maps a tuple to the computation's result
\* for that tuple.
C17_PureRaceBenign ==
    /\ \A t \in Threads :
         (thread[t].fn \in ArgsMethodFuncs /\ thread[t].pc = "idle") =>
           /\ thread[t].exc = "none"
           /\ thread[t].ret =
                Normalize(PureResult(thread[t].fn, thread[t].obj, thread[t].args))
    /\ \A o \in Objs, fn \in ArgsMethodFuncs :
         ArgsMethodSlot(fn) \in DOMAIN obj_dict[o] =>
           /\ obj_dict[o][ArgsMethodSlot(fn)] \in 1 .. Len(heap)
           /\ \A args \in DOMAIN heap[obj_dict[o][ArgsMethodSlot(fn)]] :
                heap[obj_dict[o][ArgsMethodSlot(fn)]][args] =
                  Normalize(PureResult(fn, o, args))
    /\ \A t \in Threads :
         thread[t].cache # 0 =>
           \A args \in DOMAIN heap[thread[t].cache] :
             heap[thread[t].cache][args] =
               Normalize(PureResult(thread[t].fn, thread[t].obj, args))

\* Two first calls with different tuples raced: both computed and returned,
\* and the mapping the object holds is the second one created, with the entry
\* of one tuple only.
C17_Witness ==
    \E t, u \in Threads :
        LET o == thread[t].obj
            name == ArgsMethodSlot(thread[t].fn)
        IN
        /\ AllReturned
        /\ thread[t].fn \in ArgsMethodFuncs
        /\ thread[u].fn = thread[t].fn
        /\ thread[u].obj = o
        /\ thread[t].args # thread[u].args
        /\ thread[t].executed = 1 /\ thread[u].executed = 1
        /\ thread[t].ret # thread[u].ret
        /\ Len(heap) = Cardinality(Threads)
        /\ obj_dict[o][name] = Len(heap)
        /\ DOMAIN heap[obj_dict[o][name]] = {thread[u].args}

\* --- C18

\* C18: the class cache being changed by the class_cached_property wrapper
\* only, in every reachable state an object o of exact class C that holds an
\* instance mirror for property name n has it equal to the class-level entry
\* (C, n), which exists: the instances of C see one value, through the mirror
\* or through the class-level entry.
C18_MirrorIsClassEntry ==
    \A o \in Objs, fn \in ClassPropertyFuncs :
        HasItem(o, PropertyName(fn)) =>
          /\ ClassCached(class_of[o], fn)
          /\ obj_dict[o][PropertyName(fn)] =
               class_cache[class_of[o]][PropertyName(fn)]

\* Two instances of one class hold mirrors of the value the first computed,
\* and the second has just read the property without computing.
C18_Witness ==
    /\ class_of[1] = class_of[2]
    /\ HasItem(1, PropertyName("cp"))
    /\ HasItem(2, PropertyName("cp"))
    /\ obj_dict[1][PropertyName("cp")] = obj_dict[2][PropertyName("cp")]
    /\ obj_dict[2][PropertyName("cp")].obj = 1
    /\ last.op = "get" /\ last.obj = 2 /\ last.fn = "cp"
    /\ last.after = "none"
    /\ ~last.executed
    /\ last.ret = class_cache[class_of[2]][PropertyName("cp")]

\* --- C19

\* C19: class-level entries of distinct class_cached_property members of one
\* exact class coexist: a read of property q on an instance of class C that
\* computes adds the entry (C, q) and leaves every other entry of C and the
\* entries of every other class as they are, and it computes only when (C, q)
\* itself is missing, whatever was read before.
C19_ClassEntriesCoexist ==
    [][\A o \in Objs, fn \in ClassPropertyFuncs :
         LET cls == class_of[o]
             name == PropertyName(fn)
         IN
         Did("get", o, fn) =>
           /\ last'.executed <=> (has_class_cache /\ ~HasItem(o, name)
                                     /\ ~ClassCached(cls, fn))
           /\ (last'.executed /\ last'.exc = "none") =>
                /\ ClassCached(cls, fn)'
                /\ class_cache'[cls][name] = last'.ret
           /\ \A c \in DOMAIN class_cache :
                /\ c \in DOMAIN class_cache'
                /\ \A n \in DOMAIN class_cache[c] :
                     /\ n \in DOMAIN class_cache'[c]
                     /\ class_cache'[c][n] = class_cache[c][n]
           /\ \A c \in DOMAIN class_cache' :
                \A n \in DOMAIN class_cache'[c] :
                  (c # cls \/ n # name) =>
                    (c \in DOMAIN class_cache /\ n \in DOMAIN class_cache[c])]_vars

\* The first read of cq on an instance of B computed and added (B, cq) next to
\* (B, cp), which the same instance computed before; A holds its own two
\* entries, its cp differing from B's.
C19_Witness ==
    /\ last.op = "get"
    /\ last.fn = "cq"
    /\ last.executed
    /\ last.exc = "none"
    /\ class_of[last.obj] = "B"
    /\ DOMAIN class_cache = {"A", "B"}
    /\ DOMAIN class_cache["B"] = {PropertyName("cp"), PropertyName("cq")}
    /\ DOMAIN class_cache["A"] = {PropertyName("cp"), PropertyName("cq")}
    /\ class_cache["B"][PropertyName("cq")] = last.ret
    /\ class_cache["B"][PropertyName("cp")].obj = last.obj
    /\ class_cache["A"][PropertyName("cp")].v # class_cache["B"][PropertyName("cp")].v

====
